---------------------------- MODULE Spec2Model ----------------------------
(* Model of the lessons/orders Express backend.  Two near-identical source  *)
(* files exist: src/server.js (lessons + orders) and src/unnamed/part_000   *)
(* (the same plus /register and /login).  The variable `file` records which *)
(* of the two programs is running.                                          *)
(*                                                                          *)
(* Text is modelled as a sequence of one-character strings, so that         *)
(* trimming, escaping, regular-expression matching and number parsing are   *)
(* computed character by character as the code computes them.               *)
EXTENDS Integers, Sequences, FiniteSets, TLC

VARIABLES file, pc, clock, useInMemory, db, memLessons, memOrders, memUsers,
          mongo, nextOid, pending, resp

vars == <<file, pc, clock, useInMemory, db, memLessons, memOrders, memUsers,
          mongo, nextOid, pending, resp>>

-----------------------------------------------------------------------------
(* Bounds of the model *)

\* Date.now() takes the values 0..MaxClock
MaxClock == 1
\* orders accepted in one run of the general specification
MaxOrders == 2
\* users registered in one run
MaxUsers == 2
\* POST /register requests suspended between findOne and insertOne
MaxPending == 2
\* length of a search query
MaxQLen == 2
\* orders beyond the listing limit accepted in the orders-listing specification
MaxExtraOrders == 2
\* longest email tried against the pattern
MaxEmailLen == 5

-----------------------------------------------------------------------------
(* JavaScript values *)

\* the value of a body field or variable that was never set
Undefined == <<"undefined">>

\* !v for the values a body field takes here: undefined and "" are falsy
Falsy(v) == v = Undefined \/ v = <<>>

\* `mem-${Date.now()}-${i}`
MemLessonId(t, i) == <<"mem-", t, i>>

\* `order-${Date.now()}`
OrderId(t) == <<"order-", t>>

\* "mem-" + Date.now()
MemUserId(t) == <<"mem-", t>>

\* the ObjectId the driver generates for an inserted document
ObjectId(n) == <<"ObjectId", n>>

\* the 24-digit hexadecimal string form of ObjectId(n), as it appears in a URL
HexString(n) == <<"hex", n>>

\* ObjectId.isValid(id) for a URL parameter
ObjectIdIsValid(id) == id[1] = "hex"

\* new ObjectId(id) for a valid id string
NewObjectId(id) == ObjectId(id[2])

-----------------------------------------------------------------------------
(* Text: trimming, case folding, escaping, matching, number parsing *)

WhiteSpace == {" ", "\t", "\n"}

Digits == <<"0", "1", "2", "3", "4", "5", "6", "7", "8", "9">>

UpperCase == <<"A","B","C","D","E","F","G","H","I","J","K","L","M",
               "N","O","P","Q","R","S","T","U","V","W","X","Y","Z">>

LowerCase == <<"a","b","c","d","e","f","g","h","i","j","k","l","m",
               "n","o","p","q","r","s","t","u","v","w","x","y","z">>

UpperSet == {UpperCase[i] : i \in DOMAIN UpperCase}

LowerOf == [c \in UpperSet |-> LowerCase[CHOOSE i \in DOMAIN UpperCase : UpperCase[i] = c]]

\* the case folding of the "i" flag, for one character
ToLower(c) == IF c \in UpperSet THEN LowerOf[c] ELSE c

RECURSIVE TrimStart(_)
TrimStart(s) ==
  IF s # <<>> /\ Head(s) \in WhiteSpace THEN TrimStart(Tail(s)) ELSE s

RECURSIVE TrimEnd(_)
TrimEnd(s) ==
  IF s # <<>> /\ s[Len(s)] \in WhiteSpace THEN TrimEnd(SubSeq(s, 1, Len(s) - 1)) ELSE s

\* String.prototype.trim
Trim(s) == TrimEnd(TrimStart(s))

\* the character class [.*+?^${}()|[\]\\]
RegexMeta == {".", "*", "+", "?", "^", "$", "{", "}", "(", ")", "|", "[", "]", "\\"}

\* the query used as the pattern source without escaping
NoEscape(s) == s

\* q.replace(/[.*+?^${}()|[\]\\]/g, "\\$&")
RECURSIVE EscapeRegex(_)
EscapeRegex(s) ==
  IF s = <<>> THEN <<>>
  ELSE IF Head(s) \in RegexMeta
    THEN <<"\\", Head(s)>> \o EscapeRegex(Tail(s))
  ELSE <<Head(s)>> \o EscapeRegex(Tail(s))

\* new RegExp(source, "i") for the patterns that arise here: an escaped
\* character is that literal, an unescaped "." is any character, every other
\* character is itself
RECURSIVE RegExpCompile(_)
RegExpCompile(src) ==
  IF src = <<>> THEN <<>>
  ELSE IF Head(src) = "\\" /\ Len(src) >= 2
    THEN <<<<"lit", src[2]>>>> \o RegExpCompile(SubSeq(src, 3, Len(src)))
  ELSE IF Head(src) = "."
    THEN <<<<"any", ".">>>> \o RegExpCompile(Tail(src))
  ELSE <<<<"lit", Head(src)>>>> \o RegExpCompile(Tail(src))

\* one compiled atom against one character, ignoring case
AtomMatches(atom, c) == atom[1] = "any" \/ ToLower(atom[2]) = ToLower(c)

\* re.test(text): the pattern matches somewhere in the text
RegExpTest(re, text) ==
  \E i \in 1..(Len(text) - Len(re) + 1) :
    \A k \in 1..Len(re) : AtomMatches(re[k], text[i + k - 1])

DigitValue(c) == (CHOOSE i \in DOMAIN Digits : Digits[i] = c) - 1

IsDigit(c) == \E i \in DOMAIN Digits : Digits[i] = c

AllDigits(s) == \A i \in DOMAIN s : IsDigit(s[i])

RECURSIVE DecimalValue(_)
DecimalValue(s) ==
  IF s = <<>> THEN 0 ELSE 10 * DecimalValue(SubSeq(s, 1, Len(s) - 1)) + DigitValue(s[Len(s)])

RECURSIVE StripZeros(_)
StripZeros(s) ==
  IF s # <<>> /\ s[Len(s)] = "0" THEN StripZeros(SubSeq(s, 1, Len(s) - 1)) ELSE s

NaN == [nan |-> TRUE, neg |-> FALSE, int |-> 0, frac |-> <<>>]

\* Number(s) of an unsigned decimal literal: digits, digits. , digits.digits , .digits
UnsignedNumber(s) ==
  LET dots == {i \in DOMAIN s : s[i] = "."}
  IN  IF s = <<>> THEN NaN
      ELSE IF dots = {}
        THEN IF AllDigits(s)
               THEN [nan |-> FALSE, neg |-> FALSE, int |-> DecimalValue(s), frac |-> <<>>]
               ELSE NaN
      ELSE LET d  == CHOOSE i \in dots : TRUE
               ip == SubSeq(s, 1, d - 1)
               fp == SubSeq(s, d + 1, Len(s))
           IN  IF Cardinality(dots) = 1 /\ AllDigits(ip) /\ AllDigits(fp) /\ Len(ip) + Len(fp) > 0
                 THEN [nan |-> FALSE, neg |-> FALSE, int |-> DecimalValue(ip),
                       frac |-> StripZeros(fp)]
                 ELSE NaN

\* Number(q) for a trimmed, non-empty q made of digits, ".", a leading sign and
\* characters that occur in no numeric literal (exponents, radix prefixes and
\* Infinity are outside the query alphabet)
Number(q) ==
  IF Head(q) \in {"+", "-"}
    THEN [UnsignedNumber(Tail(q)) EXCEPT !.neg = (Head(q) = "-" /\ ~UnsignedNumber(Tail(q)).nan)]
    ELSE UnsignedNumber(q)

\* a stored numeric field equals the parsed number
NumberEquals(num, n) ==
  /\ ~num.nan
  /\ num.frac = <<>>
  /\ n = (IF num.neg THEN 0 - num.int ELSE num.int)

\* all strings over an alphabet up to a length
RECURSIVE Strings(_, _)
Strings(alphabet, n) ==
  IF n = 0 THEN {<<>>}
  ELSE LET shorter == Strings(alphabet, n - 1)
       IN  shorter \cup {Append(s, c) : s \in shorter, c \in alphabet}

-----------------------------------------------------------------------------
(* Sample data *)

SAMPLE_LESSONS ==
  << [ subject     |-> <<"C","o","o","k","i","n","g"," ","C","l","a","s","s">>,
       price       |-> 25,
       location    |-> <<"K","i","t","c","h","e","n"," ","L","a","b">>,
       spaces      |-> 10,
       description |-> <<"L","e","a","r","n"," ","t","o"," ","c","o","o","k"," ",
                         "d","e","l","i","c","i","o","u","s"," ","m","e","a","l","s",".">>,
       image       |-> "/images/cooking-class.jpeg" ],
     [ subject     |-> <<"D","e","b","a","t","e"," ","C","o","m","p","e","t","i","t","i","o","n">>,
       price       |-> 15,
       location    |-> <<"A","u","d","i","t","o","r","i","u","m">>,
       spaces      |-> 20,
       description |-> <<"S","h","a","r","p","e","n"," ","y","o","u","r"," ",
                         "p","u","b","l","i","c"," ","s","p","e","a","k","i","n","g"," ",
                         "s","k","i","l","l","s",".">>,
       image       |-> "/images/debate-comp.jpeg" ] >>

\* { ...l, _id: v }
WithId(l, v) == [k \in DOMAIN l \cup {"_id"} |-> IF k = "_id" THEN v ELSE l[k]]

\* a seeding that leaves the index out of the id: `mem-${Date.now()}`
MemSeedWithoutIndex(t) ==
  [i \in 1..Len(SAMPLE_LESSONS) |-> WithId(SAMPLE_LESSONS[i], MemLessonId(t, 0))]

\* SAMPLE_LESSONS.map((l, i) => ({ ...l, _id: `mem-${Date.now()}-${i}` }))
MemSeed(t) == [i \in 1..Len(SAMPLE_LESSONS) |-> WithId(SAMPLE_LESSONS[i], MemLessonId(t, i - 1))]

\* insertMany(SAMPLE_LESSONS): the driver gives each document a fresh ObjectId
MongoSeed(n) == [i \in 1..Len(SAMPLE_LESSONS) |-> WithId(SAMPLE_LESSONS[i], ObjectId(n + i - 1))]

-----------------------------------------------------------------------------
(* Initial state: module scope has run, connectDB() has not *)

\* the last request answered and its answer
NoResp == [route |-> "none", req |-> <<>>, status |-> 0, body |-> <<>>]

EmptyStore == [lessons |-> <<>>, order |-> <<>>, users |-> <<>>]

\* the database is either new or holds the lessons an earlier run seeded
InitialStores == { EmptyStore, [EmptyStore EXCEPT !.lessons = MongoSeed(1)] }

Init ==
  /\ file \in {"server.js", "part_000"}
  /\ pc = "connect"
  /\ clock = 0
  /\ useInMemory = FALSE
  /\ db = FALSE
  /\ memLessons = <<>>
  /\ memOrders = <<>>
  /\ memUsers = <<>>
  /\ mongo \in InitialStores
  /\ nextOid = Len(mongo.lessons) + 1
  /\ pending = <<>>
  /\ resp = NoResp

\* time passes
Tick ==
  /\ clock < MaxClock
  /\ clock' = clock + 1
  /\ UNCHANGED <<file, pc, useInMemory, db, memLessons, memOrders, memUsers,
                 mongo, nextOid, pending, resp>>

-----------------------------------------------------------------------------
(* Startup chain: connectDB().then(ensureLessons).then(listen).catch(log) *)

\* the catch block of connectDB
Fallback ==
  /\ useInMemory' = TRUE
  /\ memLessons' = MemSeed(clock)
  /\ memOrders' = <<>>
  /\ memUsers' = <<>>

\* await dbClient.connect() resolves; db = dbClient.db(DB_NAME)
ConnectOk ==
  /\ pc = "connect"
  /\ db' = TRUE
  /\ pc' = "listCollections"
  /\ UNCHANGED <<file, clock, useInMemory, memLessons, memOrders, memUsers,
                 mongo, nextOid, pending, resp>>

\* await dbClient.connect() rejects
ConnectFail ==
  /\ pc = "connect"
  /\ Fallback
  /\ pc' = "ensureLessons"
  /\ UNCHANGED <<file, clock, db, mongo, nextOid, pending, resp>>

\* await db.listCollections().toArray() resolves
ListOk ==
  /\ pc = "listCollections"
  /\ pc' = "ensureLessons"
  /\ UNCHANGED <<file, clock, useInMemory, db, memLessons, memOrders, memUsers,
                 mongo, nextOid, pending, resp>>

\* await db.listCollections().toArray() rejects
ListFail ==
  /\ pc = "listCollections"
  /\ Fallback
  /\ pc' = "ensureLessons"
  /\ UNCHANGED <<file, clock, db, mongo, nextOid, pending, resp>>

\* ensureLessons in in-memory mode
EnsureMem ==
  /\ pc = "ensureLessons"
  /\ useInMemory
  /\ memLessons' = IF Len(memLessons) = 0 THEN MemSeed(clock) ELSE memLessons
  /\ pc' = "listen"
  /\ UNCHANGED <<file, clock, useInMemory, db, memOrders, memUsers,
                 mongo, nextOid, pending, resp>>

\* await col.countDocuments() resolves
CountOk ==
  /\ pc = "ensureLessons"
  /\ ~useInMemory
  /\ pc' = IF Len(mongo.lessons) = 0 THEN "insertMany" ELSE "listen"
  /\ UNCHANGED <<file, clock, useInMemory, db, memLessons, memOrders, memUsers,
                 mongo, nextOid, pending, resp>>

\* await col.countDocuments() rejects: the chain's .catch logs and nothing listens
CountFail ==
  /\ pc = "ensureLessons"
  /\ ~useInMemory
  /\ pc' = "failed"
  /\ UNCHANGED <<file, clock, useInMemory, db, memLessons, memOrders, memUsers,
                 mongo, nextOid, pending, resp>>

\* await col.insertMany(SAMPLE_LESSONS) resolves
InsertOk ==
  /\ pc = "insertMany"
  /\ mongo' = [mongo EXCEPT !.lessons = MongoSeed(nextOid)]
  /\ nextOid' = nextOid + Len(SAMPLE_LESSONS)
  /\ pc' = "listen"
  /\ UNCHANGED <<file, clock, useInMemory, db, memLessons, memOrders, memUsers,
                 pending, resp>>

\* await col.insertMany(SAMPLE_LESSONS) rejects
InsertFail ==
  /\ pc = "insertMany"
  /\ pc' = "failed"
  /\ UNCHANGED <<file, clock, useInMemory, db, memLessons, memOrders, memUsers,
                 mongo, nextOid, pending, resp>>

\* app.listen(PORT, ...)
Listen ==
  /\ pc = "listen"
  /\ pc' = "listening"
  /\ UNCHANGED <<file, clock, useInMemory, db, memLessons, memOrders, memUsers,
                 mongo, nextOid, pending, resp>>

Startup ==
  \/ ConnectOk \/ ConnectFail \/ ListOk \/ ListFail \/ EnsureMem
  \/ CountOk \/ CountFail \/ InsertOk \/ InsertFail \/ Listen

listening == pc = "listening"

\* a backend call can reject only when there is a backend
Outcome(ok) == useInMemory => ok

-----------------------------------------------------------------------------
(* GET /lessons *)

\* a handler that switches to the in-memory store when the backend call fails
GetLessonsFallingBack(ok) ==
  /\ listening
  /\ Outcome(ok)
  /\ resp' = IF useInMemory \/ ~ok
               THEN [route |-> "GET /lessons", req |-> <<>>, status |-> 200, body |-> memLessons]
               ELSE [route |-> "GET /lessons", req |-> <<>>, status |-> 200, body |-> mongo.lessons]
  /\ useInMemory' = (useInMemory \/ ~ok)
  /\ UNCHANGED <<file, pc, clock, db, memLessons, memOrders, memUsers,
                 mongo, nextOid, pending>>

GetLessons(ok) ==
  /\ listening
  /\ Outcome(ok)
  /\ resp' = IF useInMemory
               THEN [route |-> "GET /lessons", req |-> <<>>, status |-> 200, body |-> memLessons]
             ELSE IF ok
               THEN [route |-> "GET /lessons", req |-> <<>>, status |-> 200, body |-> mongo.lessons]
             ELSE [route |-> "GET /lessons", req |-> <<>>, status |-> 500,
                   body |-> [error |-> "Could not fetch lessons"]]
  /\ UNCHANGED <<file, pc, clock, useInMemory, db, memLessons, memOrders, memUsers,
                 mongo, nextOid, pending>>

-----------------------------------------------------------------------------
(* GET /search?q=term *)

\* characters of the search queries tried
QueryAlphabet == {"l", "A", ".", "1", "5", " "}

Queries == {Undefined} \cup Strings(QueryAlphabet, MaxQLen)

\* the queries of the general specification
FewQueries == {Undefined, <<" ">>, <<"l", "a">>, <<"1", "5">>, <<".">>}

\* const safeRegex = new RegExp(q.replace(...), "i")
SafeRegex(q) == RegExpCompile(EscapeRegex(q))

\* l => safeRegex.test(l.subject) || safeRegex.test(l.description) || safeRegex.test(l.location)
TextMatch(re, l) ==
  RegExpTest(re, l.subject) \/ RegExpTest(re, l.description) \/ RegExpTest(re, l.location)

\* the $or filter: the three $regex clauses, and price/spaces equality when
\* Number(q) is not NaN
OrMatch(re, num, l) ==
  \/ TextMatch(re, l)
  \/ ~num.nan /\ (NumberEquals(num, l.price) \/ NumberEquals(num, l.spaces))

\* Array.prototype.filter / find(filter).toArray(): the matching elements in order
RECURSIVE Filter(_, _)
Filter(s, keep) ==
  IF s = <<>> THEN <<>>
  ELSE IF Head(s) \in keep THEN <<Head(s)>> \o Filter(Tail(s), keep)
  ELSE Filter(Tail(s), keep)

Range(s) == {s[i] : i \in DOMAIN s}

SearchResult(raw) ==
  LET q == Trim(IF Falsy(raw) THEN <<>> ELSE raw)
  IN  IF q = <<>> THEN <<>>
      ELSE LET re  == SafeRegex(q)
               num == Number(q)
           IN  IF useInMemory
                 THEN Filter(memLessons, {l \in Range(memLessons) : TextMatch(re, l)})
                 ELSE Filter(mongo.lessons, {l \in Range(mongo.lessons) : OrMatch(re, num, l)})

Search(raw, ok) ==
  /\ listening
  /\ Outcome(ok)
  \* an empty query answers before any backend call
  /\ Trim(IF Falsy(raw) THEN <<>> ELSE raw) = <<>> => ok
  /\ resp' = IF ok
               THEN [route |-> "GET /search", req |-> raw, status |-> 200, body |-> SearchResult(raw)]
               ELSE [route |-> "GET /search", req |-> raw, status |-> 500,
                     body |-> [error |-> "Search failed"]]
  /\ UNCHANGED <<file, pc, clock, useInMemory, db, memLessons, memOrders, memUsers,
                 mongo, nextOid, pending>>

-----------------------------------------------------------------------------
(* POST /orders *)

\* a message that differs between src/server.js and src/unnamed/part_000
Text(inServer, inPart) == IF file = "server.js" THEN inServer ELSE inPart

Ann == <<"A", "n", "n">>

Phone == <<"0", "7">>

GoodEmail == <<"a", "@", "a", ".", "a">>

\* a body's items: whether it is an array, and its elements
NoItems == [array |-> FALSE, elems |-> <<>>]

EmptyItems == [array |-> TRUE, elems |-> <<>>]

OneItem == [array |-> TRUE, elems |-> <<"lesson">>]

ItemsValues == {NoItems, EmptyItems, OneItem}

EmailAlphabet == {"a", "@", ".", " "}

AllEmails == Strings(EmailAlphabet, MaxEmailLen)

\* the emails of the order bodies tried
FewEmails == { Undefined, <<>>, GoodEmail, <<"a", ".", "a", "@", "a", ".", "a">>,
               <<"a", "@", "a">>, <<"a", " ", "@", "a", ".", "a">>, <<"@", "a", ".", "a">>,
               <<"a", "@", "a", ".">>, <<"a", "@", "@", "a", ".", "a">> }

\* the bodies tried: every combination of present and absent fields, and every
\* email in an otherwise complete body
OrderBodies ==
  [name : {Undefined, Ann}, phone : {Undefined, Phone},
   email : {Undefined, GoodEmail, <<"a", "@", "a">>}, items : ItemsValues]
    \cup {[name |-> Ann, phone |-> Phone, email |-> e, items |-> OneItem] : e \in FewEmails}
    \cup {[name |-> <<>>, phone |-> Phone, email |-> GoodEmail, items |-> OneItem]}

\* the order bodies of the general specification
FewOrderBodies ==
  { [name |-> Ann, phone |-> Phone, email |-> GoodEmail, items |-> OneItem],
    [name |-> Ann, phone |-> Phone, email |-> GoodEmail, items |-> EmptyItems],
    [name |-> Ann, phone |-> Phone, email |-> <<"a", "@", "a">>, items |-> OneItem] }

\* [^\s@]+
NoSpaceNoAt(s) == s # <<>> /\ \A i \in DOMAIN s : s[i] \notin WhiteSpace \cup {"@"}

\* a pattern that asks for no dot after the "@": /^[^\s@]+@[^\s@]+$/
EmailOkWithoutTld(email) ==
  \E i \in DOMAIN email :
    /\ email[i] = "@"
    /\ NoSpaceNoAt(SubSeq(email, 1, i - 1))
    /\ NoSpaceNoAt(SubSeq(email, i + 1, Len(email)))

\* /^[^\s@]+@[^\s@]+\.[^\s@]+$/.test(email)
EmailOk(email) ==
  \E i \in DOMAIN email, j \in DOMAIN email :
    /\ i < j
    /\ email[i] = "@"
    /\ email[j] = "."
    /\ NoSpaceNoAt(SubSeq(email, 1, i - 1))
    /\ NoSpaceNoAt(SubSeq(email, i + 1, j - 1))
    /\ NoSpaceNoAt(SubSeq(email, j + 1, Len(email)))

\* !name || !phone || !email || !Array.isArray(items) || items.length === 0
MissingOrderFields(b) ==
  \/ Falsy(b.name)
  \/ Falsy(b.phone)
  \/ Falsy(b.email)
  \/ ~b.items.array
  \/ Len(b.items.elems) = 0

\* { name, phone, email, items, createdAt: new Date() }
NewOrder(b) ==
  [name |-> b.name, phone |-> b.phone, email |-> b.email, items |-> b.items.elems,
   createdAt |-> clock]

\* the orders stored, whichever the mode
StoredOrders == IF useInMemory THEN memOrders ELSE mongo.order

\* the model stops accepting orders at this many
OrdersRoom(max) == Len(StoredOrders) < max

PostOrders(b, ok, max) ==
  /\ listening
  /\ Outcome(ok)
  /\ IF MissingOrderFields(b)
       THEN /\ ok
            /\ resp' = [route |-> "POST /orders", req |-> b, status |-> 400,
                        body |-> [error |-> "Missing order fields"]]
            /\ UNCHANGED <<memOrders, mongo, nextOid>>
     ELSE IF ~EmailOk(b.email)
       THEN /\ ok
            /\ resp' = [route |-> "POST /orders", req |-> b, status |-> 400,
                        body |-> [error |-> Text("Invalid email address", "Invalid email")]]
            /\ UNCHANGED <<memOrders, mongo, nextOid>>
     ELSE IF useInMemory
       THEN /\ OrdersRoom(max)
            \* memOrders.unshift({ ...order, _id: id })
            /\ memOrders' = <<WithId(NewOrder(b), OrderId(clock))>> \o memOrders
            /\ resp' = [route |-> "POST /orders", req |-> b, status |-> 201,
                        body |-> [insertedId |-> OrderId(clock),
                                  warning |-> Text("Saved in memory only (MongoDB not connected)",
                                                   "Saved in memory")]]
            /\ UNCHANGED <<mongo, nextOid>>
     ELSE IF ok
       THEN /\ OrdersRoom(max)
            \* insertOne(order): the driver adds a fresh ObjectId
            /\ mongo' = [mongo EXCEPT !.order = Append(@, WithId(NewOrder(b), ObjectId(nextOid)))]
            /\ nextOid' = nextOid + 1
            /\ resp' = [route |-> "POST /orders", req |-> b, status |-> 201,
                        body |-> [insertedId |-> ObjectId(nextOid),
                                  message |-> Text("Order saved successfully", "Order saved")]]
            /\ UNCHANGED memOrders
     ELSE /\ resp' = [route |-> "POST /orders", req |-> b, status |-> 500,
                      body |-> [error |-> "Could not save order"]]
          /\ UNCHANGED <<memOrders, mongo, nextOid>>
  /\ UNCHANGED <<file, pc, clock, useInMemory, db, memLessons, memUsers, pending>>

-----------------------------------------------------------------------------
(* GET /orders *)

\* number of orders GET /orders lists in persistent mode
OrdersLimit == 50

\* one order placed into a list sorted by createdAt descending; orders with the
\* same createdAt come back in an order the store does not define: `tie`
\* chooses whether the later-inserted one goes first or last among its equals
RECURSIVE InsertDesc(_, _, _)
InsertDesc(o, sorted, tie) ==
  IF sorted = <<>> THEN <<o>>
  ELSE IF \/ Head(sorted).createdAt < o.createdAt
          \/ tie = "first" /\ Head(sorted).createdAt = o.createdAt
    THEN <<o>> \o sorted
  ELSE <<Head(sorted)>> \o InsertDesc(o, Tail(sorted), tie)

\* .sort({ createdAt: -1 })
RECURSIVE SortDesc(_, _)
SortDesc(s, tie) ==
  IF s = <<>> THEN <<>>
  ELSE InsertDesc(s[Len(s)], SortDesc(SubSeq(s, 1, Len(s) - 1), tie), tie)

\* .limit(n)
Limit(s, n) == SubSeq(s, 1, IF Len(s) < n THEN Len(s) ELSE n)

\* a listing that forgets the sort: find().limit(50).toArray()
FirstOrders(tie) == Limit(mongo.order, OrdersLimit)

\* find().sort({ createdAt: -1 }).limit(50).toArray()
RecentOrders(tie) == Limit(SortDesc(mongo.order, tie), OrdersLimit)

GetOrders(ok, tie) ==
  /\ listening
  /\ Outcome(ok)
  /\ (useInMemory \/ ~ok) => tie = "first"
  /\ resp' =
       IF useInMemory
         THEN [route |-> "GET /orders", req |-> <<>>, status |-> 200,
               body |-> IF file = "server.js"
                          THEN [mode |-> "in-memory", orders |-> memOrders]
                          ELSE memOrders]
       ELSE IF ok
         THEN [route |-> "GET /orders", req |-> <<>>, status |-> 200,
               body |-> IF file = "server.js"
                          THEN [mode |-> "mongodb", count |-> Len(RecentOrders(tie)),
                                orders |-> RecentOrders(tie)]
                          ELSE RecentOrders(tie)]
       ELSE [route |-> "GET /orders", req |-> <<>>, status |-> 500,
             body |-> [error |-> Text("Could not fetch orders", "Could not load orders")]]
  /\ UNCHANGED <<file, pc, clock, useInMemory, db, memLessons, memOrders, memUsers,
                 mongo, nextOid, pending>>

-----------------------------------------------------------------------------
(* PUT /lessons/:id *)

\* the body taken as it came, with `delete updates._id` left out
KeepId(body) == body

\* delete updates._id
DeleteId(body) == [k \in DOMAIN body \ {"_id"} |-> body[k]]

\* Object.assign(lesson, updates) / { $set: updates }
Assign(lesson, updates) ==
  [k \in DOMAIN lesson \cup DOMAIN updates |->
     IF k \in DOMAIN updates THEN updates[k] ELSE lesson[k]]

\* the ids tried in the URL: in-memory ids, ObjectId strings, and one that is neither
UrlIds ==
  {MemLessonId(t, i) : t \in 0..MaxClock, i \in 0..1}
    \cup {HexString(n) : n \in 1..3} \cup {<<"nope">>}

\* the bodies tried
LessonUpdates ==
  { [spaces |-> 5],
    [_id |-> <<"nope">>, spaces |-> 5],
    [_id |-> <<"nope">>],
    [price |-> 15, note |-> <<"n">>] }

\* the ids and bodies of the general specification
FewUrlIds == {MemLessonId(0, 0), HexString(1), <<"nope">>}

FewLessonUpdates == { [_id |-> <<"nope">>, spaces |-> 5] }

\* the bodies that vary the lessons searched
SearchUpdates == { [spaces |-> 5], [subject |-> <<"1", "5">>] }

\* { _id: ObjectId.isValid(id) ? new ObjectId(id) : id }
FilterId(id) == IF ObjectIdIsValid(id) THEN NewObjectId(id) ELSE id

\* positions of the documents with this _id
Matching(lessons, id) == {i \in DOMAIN lessons : lessons[i]._id = id}

\* Array.prototype.find / findOneAndUpdate take the first match
First(S) == CHOOSE i \in S : \A j \in S : i <= j

PutLesson(id, body, ok) ==
  /\ listening
  /\ Outcome(ok)
  /\ LET updates == DeleteId(body)
         lessons == IF useInMemory THEN memLessons ELSE mongo.lessons
         found   == Matching(lessons, IF useInMemory THEN id ELSE FilterId(id))
     IN  IF ~ok
           THEN /\ resp' = [route |-> "PUT /lessons/:id", req |-> [id |-> id, body |-> body], status |-> 500,
                            body |-> [error |-> Text("Could not update lesson", "Update failed")]]
                /\ UNCHANGED <<memLessons, mongo>>
         ELSE IF found = {}
           THEN /\ resp' = [route |-> "PUT /lessons/:id", req |-> [id |-> id, body |-> body], status |-> 404,
                            body |-> [error |-> "Lesson not found"]]
                /\ UNCHANGED <<memLessons, mongo>>
         ELSE LET i       == First(found)
                  updated == Assign(lessons[i], updates)
              IN  /\ resp' = [route |-> "PUT /lessons/:id", req |-> [id |-> id, body |-> body], status |-> 200, body |-> updated]
                  /\ IF useInMemory
                       THEN /\ memLessons' = [memLessons EXCEPT ![i] = updated]
                            /\ UNCHANGED mongo
                       ELSE /\ mongo' = [mongo EXCEPT !.lessons[i] = updated]
                            /\ UNCHANGED memLessons
  /\ UNCHANGED <<file, pc, clock, useInMemory, db, memOrders, memUsers, nextOid, pending>>

-----------------------------------------------------------------------------
(* GET /status *)

StatusBody ==
  IF file = "server.js"
    THEN [mongodb |->
           [connected    |-> ~useInMemory /\ db,
            database     |-> "LessonApp",
            mode         |-> IF useInMemory THEN "in-memory" ELSE "mongodb",
            ordersCount  |-> IF useInMemory THEN Len(memOrders) ELSE Len(mongo.order),
            lessonsCount |-> IF useInMemory THEN Len(memLessons) ELSE Len(mongo.lessons)]]
    ELSE [connected |-> ~useInMemory,
          mode      |-> IF useInMemory THEN "in-memory" ELSE "mongodb"]

GetStatus(ok) ==
  /\ listening
  /\ Outcome(ok)
  \* only src/server.js awaits the store (the two countDocuments calls)
  /\ file = "part_000" => ok
  /\ resp' = IF ok
               THEN [route |-> "GET /status", req |-> <<>>, status |-> 200, body |-> StatusBody]
               ELSE [route |-> "GET /status", req |-> <<>>, status |-> 500,
                     body |-> [error |-> "Could not check status"]]
  /\ UNCHANGED <<file, pc, clock, useInMemory, db, memLessons, memOrders, memUsers,
                 mongo, nextOid, pending>>

-----------------------------------------------------------------------------
(* POST /register and POST /login (src/unnamed/part_000 only) *)

Bob == <<"B", "o", "b">>

OtherEmail == <<"b", "@", "b", ".", "b">>

Pw1 == <<"p", "w", "1">>

Pw2 == <<"p", "w", "2">>

RegisterBodies ==
  { [name |-> Ann, email |-> GoodEmail, password |-> Pw1],
    [name |-> Bob, email |-> GoodEmail, password |-> Pw2],
    [name |-> Bob, email |-> OtherEmail, password |-> Pw1],
    [name |-> Undefined, email |-> GoodEmail, password |-> Pw1],
    [name |-> Ann, email |-> <<>>, password |-> Pw1],
    [name |-> Ann, email |-> GoodEmail, password |-> Undefined] }

LoginBodies == [email : {Undefined, GoodEmail, OtherEmail}, password : {Undefined, Pw1, Pw2}]

\* the bodies of the general specification
FewRegisterBodies == { [name |-> Ann, email |-> GoodEmail, password |-> Pw1] }

FewLoginBodies ==
  { [email |-> GoodEmail, password |-> Pw1], [email |-> GoodEmail, password |-> Pw2] }

\* the users stored, whichever the mode
StoredUsers == IF useInMemory THEN memUsers ELSE mongo.users

\* a lookup that compares the wrong field: u => u.name === email
WithEmailWrongField(users, email) == {i \in DOMAIN users : users[i].name = email}

\* positions of the users with this email
WithEmail(users, email) == {i \in DOMAIN users : users[i].email = email}

\* the handler up to its first suspension: in in-memory mode the whole request,
\* in persistent mode up to the answer of `await usersCol.findOne({ email })`
Register(b, ok) ==
  /\ file = "part_000"
  /\ listening
  /\ Outcome(ok)
  /\ IF Falsy(b.name) \/ Falsy(b.email) \/ Falsy(b.password)
       THEN /\ ok
            /\ resp' = [route |-> "POST /register", req |-> b, status |-> 400,
                        body |-> [error |-> "Missing fields"]]
            /\ UNCHANGED <<memUsers, pending>>
     ELSE IF useInMemory
       THEN IF WithEmail(memUsers, b.email) # {}
              THEN /\ resp' = [route |-> "POST /register", req |-> b, status |-> 400,
                               body |-> [error |-> "Email already registered"]]
                   /\ UNCHANGED <<memUsers, pending>>
              ELSE /\ Len(memUsers) < MaxUsers
                   /\ memUsers' = Append(memUsers,
                                    [_id |-> MemUserId(clock), name |-> b.name,
                                     email |-> b.email, password |-> b.password])
                   /\ resp' = [route |-> "POST /register", req |-> b, status |-> 200,
                               body |-> [message |-> "Account created (in memory)"]]
                   /\ UNCHANGED pending
     ELSE IF ~ok
       THEN /\ resp' = [route |-> "POST /register", req |-> b, status |-> 500,
                        body |-> [error |-> "Registration failed"]]
            /\ UNCHANGED <<memUsers, pending>>
     ELSE IF WithEmail(mongo.users, b.email) # {}
       THEN /\ resp' = [route |-> "POST /register", req |-> b, status |-> 400,
                        body |-> [error |-> "Email already registered"]]
            /\ UNCHANGED <<memUsers, pending>>
     ELSE /\ Len(pending) < MaxPending
          \* findOne answered null: the request goes on to insertOne
          /\ pending' = Append(pending, b)
          /\ UNCHANGED <<memUsers, resp>>
  /\ UNCHANGED <<file, pc, clock, useInMemory, db, memLessons, memOrders, mongo, nextOid>>

\* s without its i-th element
Remove(s, i) == SubSeq(s, 1, i - 1) \o SubSeq(s, i + 1, Len(s))

\* a suspended registration resumes: await usersCol.insertOne({ name, email, password })
RegisterInsert(i, ok) ==
  /\ i \in DOMAIN pending
  /\ IF ok
       THEN /\ Len(mongo.users) < MaxUsers
            /\ mongo' = [mongo EXCEPT !.users =
                           Append(@, [_id |-> ObjectId(nextOid), name |-> pending[i].name,
                                      email |-> pending[i].email,
                                      password |-> pending[i].password])]
            /\ nextOid' = nextOid + 1
            /\ resp' = [route |-> "POST /register", req |-> pending[i], status |-> 200,
                        body |-> [message |-> "Account created"]]
       ELSE /\ resp' = [route |-> "POST /register", req |-> pending[i], status |-> 500,
                        body |-> [error |-> "Registration failed"]]
            /\ UNCHANGED <<mongo, nextOid>>
  /\ pending' = Remove(pending, i)
  /\ UNCHANGED <<file, pc, clock, useInMemory, db, memLessons, memOrders, memUsers>>

Login(b, ok) ==
  /\ file = "part_000"
  /\ listening
  /\ Outcome(ok)
  /\ LET found == WithEmail(StoredUsers, b.email)
     IN  resp' =
           IF Falsy(b.email) \/ Falsy(b.password)
             THEN [route |-> "POST /login", req |-> b, status |-> 400, body |-> [error |-> "Missing fields"]]
           ELSE IF ~ok
             THEN [route |-> "POST /login", req |-> b, status |-> 500, body |-> [error |-> "Login failed"]]
           ELSE IF found = {}
             THEN [route |-> "POST /login", req |-> b, status |-> 400, body |-> [error |-> "User not found"]]
           ELSE IF StoredUsers[First(found)].password # b.password
             THEN [route |-> "POST /login", req |-> b, status |-> 400,
                   body |-> [error |-> "Incorrect password"]]
           ELSE [route |-> "POST /login", req |-> b, status |-> 200,
                 body |-> [message |-> IF useInMemory THEN "Login success (in memory)"
                                                      ELSE "Login success",
                           user |-> [name  |-> StoredUsers[First(found)].name,
                                     email |-> StoredUsers[First(found)].email]]]
  /\ (Falsy(b.email) \/ Falsy(b.password)) => ok
  /\ UNCHANGED <<file, pc, clock, useInMemory, db, memLessons, memOrders, memUsers,
                 mongo, nextOid, pending>>

-----------------------------------------------------------------------------
(* Specifications *)

Ties == {"first", "last"}

\* the whole server, each route with a few inputs
Next ==
  \/ Startup
  \/ Tick
  \/ \E ok \in BOOLEAN : GetLessons(ok)
  \/ \E q \in FewQueries, ok \in BOOLEAN : Search(q, ok)
  \/ \E b \in FewOrderBodies, ok \in BOOLEAN : PostOrders(b, ok, MaxOrders)
  \/ \E ok \in BOOLEAN, tie \in Ties : GetOrders(ok, tie)
  \/ \E id \in FewUrlIds, body \in FewLessonUpdates, ok \in BOOLEAN : PutLesson(id, body, ok)
  \/ \E ok \in BOOLEAN : GetStatus(ok)
  \/ \E b \in FewRegisterBodies, ok \in BOOLEAN : Register(b, ok)
  \/ \E i \in 1..MaxPending, ok \in BOOLEAN : RegisterInsert(i, ok)
  \/ \E b \in FewLoginBodies, ok \in BOOLEAN : Login(b, ok)

Spec == Init /\ [][Next]_vars

\* the lesson update route, with every id and body tried
LessonsNext ==
  \/ Startup
  \/ Tick
  \/ \E ok \in BOOLEAN : GetLessons(ok)
  \/ \E id \in UrlIds, body \in LessonUpdates, ok \in BOOLEAN : PutLesson(id, body, ok)

LessonsSpec == Init /\ [][LessonsNext]_vars

\* the search route, with every query tried, over lessons that updates vary
SearchNext ==
  \/ Startup
  \/ Tick
  \/ \E q \in Queries, ok \in BOOLEAN : Search(q, ok)
  \/ \E id \in FewUrlIds, body \in SearchUpdates, ok \in BOOLEAN : PutLesson(id, body, ok)

SearchSpec == Init /\ [][SearchNext]_vars

\* the order routes, with every body tried
OrdersNext ==
  \/ Startup
  \/ Tick
  \/ \E b \in OrderBodies, ok \in BOOLEAN : PostOrders(b, ok, MaxOrders)
  \/ \E ok \in BOOLEAN, tie \in Ties : GetOrders(ok, tie)

OrdersSpec == Init /\ [][OrdersNext]_vars

\* the order routes with one valid body, past the listing limit
ManyOrdersNext ==
  \/ Startup
  \/ Tick
  \/ \E ok \in BOOLEAN :
       PostOrders([name |-> Ann, phone |-> Phone, email |-> GoodEmail, items |-> OneItem],
                  ok, OrdersLimit + MaxExtraOrders)
  \/ \E ok \in BOOLEAN, tie \in Ties : GetOrders(ok, tie)

ManyOrdersSpec == Init /\ [][ManyOrdersNext]_vars

\* the user routes, with every body tried
UsersNext ==
  \/ Startup
  \/ Tick
  \/ \E b \in RegisterBodies, ok \in BOOLEAN : Register(b, ok)
  \/ \E i \in 1..MaxPending, ok \in BOOLEAN : RegisterInsert(i, ok)
  \/ \E b \in LoginBodies, ok \in BOOLEAN : Login(b, ok)

UsersSpec == Init /\ [][UsersNext]_vars

\* the user routes handled one request at a time: a request arrives only when
\* no registration is suspended
SeqUsersNext ==
  \/ Startup
  \/ Tick
  \/ \E b \in RegisterBodies, ok \in BOOLEAN : pending = <<>> /\ Register(b, ok)
  \/ \E i \in 1..MaxPending, ok \in BOOLEAN : RegisterInsert(i, ok)
  \/ \E b \in LoginBodies, ok \in BOOLEAN : pending = <<>> /\ Login(b, ok)

SeqUsersSpec == Init /\ [][SeqUsersNext]_vars

\* every promise of the startup chain settles: a step of the chain that can be
\* taken is eventually taken
FairSpec == Spec /\ WF_vars(Startup)

-----------------------------------------------------------------------------
(* Claims about startup and the storage mode *)

\* C1: from process start, under every outcome of the startup steps, the
\* chain connectDB -> ensureLessons -> app.listen eventually starts the
\* HTTP listener.
C1_EventuallyListening == <>listening

\* C2: the storage mode is decided during connectDB, before the listener
\* starts, at most once (from persistent to in-memory), and no step taken
\* once the server listens, whatever the route and its outcome, changes it.
C2_ModeFixedAfterStartup ==
  [][ /\ listening => useInMemory' = useInMemory
      /\ useInMemory' # useInMemory =>
            (pc \in {"connect", "listCollections"} /\ ~useInMemory /\ ~listening') ]_vars

\* the server listens in persistent mode and has just answered a backend error
C2_Witness == listening /\ ~useInMemory /\ resp.status = 500

\* the mode GET /status reports, in either file's body layout
StatusMode(body) == IF file = "server.js" THEN body.mongodb.mode ELSE body.mode

StatusConnected(body) == IF file = "server.js" THEN body.mongodb.connected ELSE body.connected

Subjects(lessons) == {lessons[i].subject : i \in DOMAIN lessons}

\* C8: when the connection attempt failed (db was never set), the state in
\* which the server starts serving, before any request was answered, has
\* in-memory mode set; GET /status would report mode "in-memory" and not
\* connected; there are no orders and no users; and GET /lessons would return
\* exactly two lessons with distinct ids, subjects "Cooking Class" and
\* "Debate Competition".
C8_FallbackServesSeededLessons ==
  (listening /\ ~db /\ resp = NoResp) =>
    /\ useInMemory
    /\ StatusMode(StatusBody) = "in-memory"
    /\ ~StatusConnected(StatusBody)
    /\ memOrders = <<>>
    /\ memUsers = <<>>
    /\ Len(memLessons) = 2
    /\ memLessons[1]._id # memLessons[2]._id
    /\ Subjects(memLessons) =
         { <<"C","o","o","k","i","n","g"," ","C","l","a","s","s">>,
           <<"D","e","b","a","t","e"," ","C","o","m","p","e","t","i","t","i","o","n">> }

\* the server has just started listening after a failed connection attempt
C8_Witness == listening /\ ~db /\ resp = NoResp

-----------------------------------------------------------------------------
(* Claims about POST /orders *)

\* the local@domain.tld shape: no white space, exactly one "@" with something
\* before it, and after it a "." with something on both sides
HasEmailShape(email) ==
  LET ats == {i \in DOMAIN email : email[i] = "@"}
  IN  /\ \A i \in DOMAIN email : email[i] \notin WhiteSpace
      /\ Cardinality(ats) = 1
      /\ \A a \in ats :
            /\ a > 1
            /\ \E d \in (a + 2)..(Len(email) - 1) : email[d] = "."

\* name, phone and email present, email well-formed, items a non-empty array
WellFormedOrder(b) ==
  /\ ~Falsy(b.name) /\ ~Falsy(b.phone) /\ ~Falsy(b.email)
  /\ HasEmailShape(b.email)
  /\ b.items.array /\ b.items.elems # <<>>

OrderIds(orders) == {orders[i]._id : i \in DOMAIN orders}

\* a step that answers a POST /orders request (only that handler writes the
\* orders, and it always answers)
OrderAnswered == resp'.route = "POST /orders" /\ (resp' # resp \/ StoredOrders' # StoredOrders)

\* C3: every well-formed POST /orders that the backend serves returns 201
\* with a non-empty insertedId that no earlier order of the run was given
\* (the stored orders are exactly the earlier 201 answers), in either mode.
C3_OrderIdsUnique ==
  [][ (OrderAnswered /\ WellFormedOrder(resp'.req) /\ resp'.status # 500) =>
        /\ resp'.status = 201
        /\ resp'.body.insertedId \notin {<<>>, Undefined}
        /\ resp'.body.insertedId \notin OrderIds(StoredOrders) ]_vars

\* the pattern of the code accepts exactly the strings of the shape
EmailPatternIsShape == \A e \in AllEmails : EmailOk(e) <=> HasEmailShape(e)

\* C5: a POST /orders that lacks name, phone or email, or whose items is not
\* a non-empty array, or whose email has not the local@domain.tld shape,
\* returns 400 and stores no order, in either mode.
C5_BadOrderRejected ==
  [][ /\ EmailPatternIsShape
      /\ (OrderAnswered /\ ~WellFormedOrder(resp'.req)) =>
            /\ resp'.status = 400
            /\ memOrders' = memOrders
            /\ mongo' = mongo ]_vars

\* an order is stored and a later submission was refused for its email
C5_Witness ==
  /\ resp.route = "POST /orders"
  /\ resp.status = 400
  /\ resp.body.error \in {"Invalid email address", "Invalid email"}
  /\ StoredOrders # <<>>

-----------------------------------------------------------------------------
(* Claims about POST /register and POST /login *)

\* C4: no two stored users share an email, in either mode and under every
\* interleaving of concurrent POST /register requests.
C4_EmailsUnique ==
  \A i, j \in DOMAIN StoredUsers :
    i # j => StoredUsers[i].email # StoredUsers[j].email

CompleteUser(b) == ~Falsy(b.name) /\ ~Falsy(b.email) /\ ~Falsy(b.password)

\* the answer to the last login is the one the stored users call for
LoginAnswerRight ==
  (resp.route = "POST /login" /\ resp.status # 500) =>
    LET known == {i \in DOMAIN StoredUsers :
                    /\ ~Falsy(resp.req.email) /\ ~Falsy(resp.req.password)
                    /\ StoredUsers[i].email = resp.req.email
                    /\ StoredUsers[i].password = resp.req.password}
    IN  IF known = {}
          THEN resp.status = 400
          ELSE /\ resp.status = 200
               /\ \A i \in known :
                     resp.body.user = [name |-> StoredUsers[i].name, email |-> resp.req.email]

\* C7: in a sequential run, a POST /register whose email is already stored
\* returns 400, stores nothing and is not carried on to an insert; a POST
\* /login with a stored email and its password returns 200 with exactly that
\* user's name and email and no password; a login with an unknown email or
\* another password returns 400.
C7_RegisterThenLogin ==
  [][ /\ C4_EmailsUnique'
      /\ Len(pending') > Len(pending) =>
            WithEmail(StoredUsers, pending'[Len(pending')].email) = {}
      /\ ( /\ resp'.route = "POST /register"
           /\ pending' = pending
           /\ resp' # resp \/ StoredUsers' # StoredUsers
           /\ CompleteUser(resp'.req)
           /\ \E i \in DOMAIN StoredUsers : StoredUsers[i].email = resp'.req.email
           /\ resp'.status # 500 ) =>
            (resp'.status = 400 /\ StoredUsers' = StoredUsers)
      /\ LoginAnswerRight' ]_vars

\* two users are registered and one of them has just logged in
C7_Witness ==
  resp.route = "POST /login" /\ resp.status = 200 /\ Len(StoredUsers) = 2

-----------------------------------------------------------------------------
(* Claims about the lesson routes *)

StoredLessons == IF useInMemory THEN memLessons ELSE mongo.lessons

\* the form in which a stored _id appears in a URL: an ObjectId as its
\* hexadecimal string, a string as itself
UrlForm(v) == IF v[1] = "ObjectId" THEN HexString(v[2]) ELSE v

\* C6: PUT /lessons/:id with an id that matches no stored lesson returns 404
\* and changes nothing; with a matching id it sets the body's fields, _id
\* excepted, in exactly that lesson, keeps that lesson's _id and every other
\* field, and never adds or removes a lesson or touches another collection.
C6_PutLesson ==
  [][ ( /\ resp'.route = "PUT /lessons/:id"
        /\ resp' # resp \/ StoredLessons' # StoredLessons ) =>
        LET id   == resp'.req.id
            body == resp'.req.body
            old  == StoredLessons
            new  == StoredLessons'
            hit  == {i \in DOMAIN old : UrlForm(old[i]._id) = id}
        IN  /\ Len(new) = Len(old)
            /\ memOrders' = memOrders /\ memUsers' = memUsers
            /\ mongo'.order = mongo.order /\ mongo'.users = mongo.users
            /\ resp'.status \in {200, 404, 500}
            /\ resp'.status # 200 => new = old
            /\ hit = {} => resp'.status # 200
            /\ hit # {} => resp'.status # 404
            /\ resp'.status = 200 =>
                  \E i \in hit :
                    /\ \A j \in DOMAIN old : j # i => new[j] = old[j]
                    /\ new[i]._id = old[i]._id
                    /\ DOMAIN new[i] = DOMAIN old[i] \cup (DOMAIN body \ {"_id"})
                    /\ \A k \in DOMAIN body \ {"_id"} : new[i][k] = body[k]
                    /\ \A k \in DOMAIN old[i] \ DOMAIN body : new[i][k] = old[i][k]
                    /\ resp'.body = new[i] ]_vars

\* a lesson was updated by a body that carried an _id
C6_Witness ==
  /\ resp.route = "PUT /lessons/:id"
  /\ resp.status = 200
  /\ "_id" \in DOMAIN resp.req.body
  /\ resp.body.spaces = 5

\* text contains q as a substring, letter case ignored
ContainsIgnoringCase(text, q) ==
  \E i \in 1..(Len(text) - Len(q) + 1) :
    \A k \in 1..Len(q) : ToLower(text[i + k - 1]) = ToLower(q[k])

\* q without its leading and trailing white space
Trimmed(q) ==
  LET solid == {i \in DOMAIN q : q[i] \notin WhiteSpace}
  IN  IF solid = {} THEN <<>>
      ELSE SubSeq(q, CHOOSE i \in solid : \A j \in solid : i <= j,
                     CHOOSE i \in solid : \A j \in solid : i >= j)

\* the lessons the claim expects for a query, in store order
ExpectedSearch(raw) ==
  LET q == IF raw = Undefined THEN <<>> ELSE Trimmed(raw)
      text(l) == \/ ContainsIgnoringCase(l.subject, q)
                 \/ ContainsIgnoringCase(l.description, q)
                 \/ ContainsIgnoringCase(l.location, q)
      number(l) == /\ ~Number(q).nan
                   /\ NumberEquals(Number(q), l.price) \/ NumberEquals(Number(q), l.spaces)
  IN  IF q = <<>> THEN <<>>
      ELSE IF useInMemory
        THEN Filter(memLessons, {l \in Range(memLessons) : text(l)})
        ELSE Filter(mongo.lessons, {l \in Range(mongo.lessons) : text(l) \/ number(l)})

\* C10: GET /search with an empty or white-space q returns the empty list;
\* otherwise, in persistent mode, the lessons whose subject, description or
\* location contains the trimmed q literally, case ignored, together with the
\* lessons whose price or spaces equals q when q is a number; in in-memory
\* mode the text matches only; and it changes no stored lesson.
C10_Search ==
  [][ resp'.route = "GET /search" =>
        /\ memLessons' = memLessons
        /\ mongo' = mongo
        /\ resp'.status \in {200, 500}
        /\ resp'.status = 200 => resp'.body = ExpectedSearch(resp'.req) ]_vars

\* in persistent mode the query "15" has returned a lesson that holds no "15"
\* in its text
C10_Witness ==
  /\ resp.route = "GET /search"
  /\ resp.status = 200
  /\ ~useInMemory
  /\ resp.req = <<"1", "5">>
  /\ resp.body # <<>>
  /\ \A i \in DOMAIN resp.body : ~ContainsIgnoringCase(resp.body[i].subject, resp.req)

-----------------------------------------------------------------------------
(* Claims about GET /orders *)

\* the orders a GET /orders answer lists, in either file's body layout
Listed == IF file = "server.js" THEN resp.body.orders ELSE resp.body

NewestFirst(orders) ==
  \A i, j \in DOMAIN orders : i < j => orders[i].createdAt >= orders[j].createdAt

\* how many of the orders were created at time t or later
CountSince(orders, t) == Cardinality({i \in DOMAIN orders : orders[i].createdAt >= t})

Min(a, b) == IF a < b THEN a ELSE b

\* the listed orders are stored orders, and they are the most recently created
\* ones: from any time on, the listing holds as many orders as are stored, up
\* to its length
MostRecent(orders, stored) ==
  /\ Range(orders) \subseteq Range(stored)
  /\ \A i \in DOMAIN stored :
        CountSince(orders, stored[i].createdAt) =
          Min(Len(orders), CountSince(stored, stored[i].createdAt))

\* C9 as claimed: in both modes GET /orders returns at most 50 orders, the
\* most recently created ones, newest first.
C9_AtMostFiftyInBothModes ==
  (resp.route = "GET /orders" /\ resp.status = 200) =>
    /\ Len(Listed) <= OrdersLimit
    /\ NewestFirst(Listed)
    /\ MostRecent(Listed, StoredOrders)

\* C9 as amended: GET /orders lists orders newest first; in persistent mode
\* it returns the 50 most recently created orders, or all when there are
\* fewer; in in-memory mode it returns every stored order, with no cap.
C9_RecentOrders ==
  (resp.route = "GET /orders" /\ resp.status = 200) =>
    /\ NewestFirst(Listed)
    /\ MostRecent(Listed, StoredOrders)
    /\ ~useInMemory =>
          /\ Len(Listed) = Min(OrdersLimit, Len(mongo.order))
          /\ Cardinality(Range(Listed)) = Len(Listed)
    /\ useInMemory => Listed = memOrders

\* in persistent mode more orders are stored than a listing returns, and a
\* listing was answered
C9_Witness ==
  /\ resp.route = "GET /orders"
  /\ resp.status = 200
  /\ ~useInMemory
  /\ Len(mongo.order) > OrdersLimit
  /\ mongo.order[1].createdAt < mongo.order[Len(mongo.order)].createdAt

=============================================================================
